---------------------------- MODULE Spec2Model ----------------------------
(***************************************************************************)
(* Model of pytorch3d/renderer/blending.py: the BlendParams configuration  *)
(* class and the three blending functions hard_rgb_blend,                  *)
(* sigmoid_alpha_blend and softmax_rgb_blend.                              *)
(*                                                                         *)
(* Arithmetic.  The functions are evaluated in exact real arithmetic (the  *)
(* rounding of float32, NaN and the infinities are not modelled).  Every   *)
(* argument of exp and sigmoid is kept on the lattice of integer multiples *)
(* of ln 2, where exp(x * ln 2) = 2^x is rational:                         *)
(*   - sigma and gamma are counted in units of 1/ln 2, so the real value   *)
(*     of blend_params.sigma is sigma/ln 2 and that of gamma is gamma/ln 2;*)
(*   - dists, zbuf and the colours are plain real numbers;                 *)
(*   - an argument of exp or sigmoid is counted in units of ln 2.          *)
(* The background mass delta = exp(1e-10/gamma) * 1e-10 is irrational and  *)
(* of the order 1e-10 for every gamma of the model; it is kept as an       *)
(* indeterminate.  A number is a tuple <<a, b, c, d>> of integers standing *)
(* for (a + b*delta) / (c + d*delta), in lowest terms with a positive      *)
(* denominator; <<n, 0, m, 0>> is the rational n/m.  delta is a root of no *)
(* integer polynomial of a degree that occurs here (it is 1e-10 times a    *)
(* power 2^(99e-10/g) of 2), so two numbers are equal exactly when their   *)
(* tuples are, and because 0 < delta < 1e-9 the sign of a polynomial in    *)
(* delta with integer coefficients below 1e9 is the sign of its lowest     *)
(* non-zero coefficient.                                                   *)
(*                                                                         *)
(* Tensors are nested sequences indexed from 1: a tensor of shape          *)
(* (N, H, W, K) is t[n][h][w][k].                                          *)
(***************************************************************************)
EXTENDS Integers, Sequences, FiniteSets, TLC

(***************************************************************************)
(* Numbers                                                                 *)
(***************************************************************************)
Abs(x) == IF x < 0 THEN -x ELSE x

RECURSIVE GcdNat(_, _)
GcdNat(a, b) == IF b = 0 THEN a ELSE GcdNat(b, a % b)

Gcd(a, b) == GcdNat(Abs(a), Abs(b))

RECURSIVE Pow2(_)
Pow2(n) == IF n = 0 THEN 1 ELSE 2 * Pow2(n - 1)

\* The rational rn / rd, rd > 0, in lowest terms
Rational(rn, rd) == <<rn \div Gcd(rn, rd), 0, rd \div Gcd(rn, rd), 0>>

\* (a + b*delta) / (c + d*delta) for coprime a, b, c, d and a positive
\* denominator: the rational r when the numerator is r times the denominator
Canonical(a, b, c, d) ==
    IF a * d = b * c
    THEN Rational(IF c # 0 THEN a ELSE b, IF c # 0 THEN c ELSE d)
    ELSE <<a, b, c, d>>

\* (a + b*delta) / (c + d*delta) with the common factor g > 0 divided out and
\* the sign s moved to the numerator
Reduced(a, b, c, d, g, s) ==
    Canonical(s * (a \div g), s * (b \div g), s * (c \div g), s * (d \div g))

\* (a + b*delta) / (c + d*delta) in canonical form; <<0, 0, 0, 0>> when the
\* denominator is 0
Norm(a, b, c, d) ==
    IF c = 0 /\ d = 0
    THEN <<0, 0, 0, 0>>
    ELSE Reduced(a, b, c, d, Gcd(Gcd(a, b), Gcd(c, d)),
                 IF c < 0 \/ (c = 0 /\ d < 0) THEN -1 ELSE 1)

R(n, m) == Norm(n, 0, m, 0)
Zero == <<0, 0, 1, 0>>
One == <<1, 0, 1, 0>>
\* The result of an operation that leaves the family of numbers above
\* (a product of two delta-terms); the blending functions never produce it.
Unrepresentable == <<0, 0, 0, 0>>

IsRational(x) == x[2] = 0 /\ x[4] = 0
IsInteger(x) == IsRational(x) /\ x[3] = 1

NNeg(x) == <<-x[1], -x[2], x[3], x[4]>>

\* x + y for denominators that are proportional: p * y.den = q * x.den
AddProportional(x, y, p, q) ==
    Norm(x[1] * q + y[1] * p, x[2] * q + y[2] * p, x[3] * q, x[4] * q)

\* r + y for a rational r
AddRational(r, y) ==
    Norm(r[1] * y[3] + r[3] * y[1], r[1] * y[4] + r[3] * y[2],
         r[3] * y[3], r[3] * y[4])

\* p and q divided by their common factor, as the pair <<p, q>>
Coprime(p, q) == <<p \div Gcd(p, q), q \div Gcd(p, q)>>

NAdd(x, y) ==
    IF x[3] * y[4] = x[4] * y[3]
    THEN AddProportional(x, y,
             Coprime(IF x[3] # 0 THEN x[3] ELSE x[4],
                     IF x[3] # 0 THEN y[3] ELSE y[4])[1],
             Coprime(IF x[3] # 0 THEN x[3] ELSE x[4],
                     IF x[3] # 0 THEN y[3] ELSE y[4])[2])
    ELSE IF IsRational(x) \/ IsRational(y)
    THEN AddRational(IF IsRational(x) THEN x ELSE y, IF IsRational(x) THEN y ELSE x)
    ELSE Unrepresentable

NSub(x, y) == NAdd(x, NNeg(y))

NMul(x, y) ==
    IF x[2] * y[2] = 0 /\ x[4] * y[4] = 0
    THEN Norm(x[1] * y[1], x[1] * y[2] + x[2] * y[1],
              x[3] * y[3], x[3] * y[4] + x[4] * y[3])
    ELSE Unrepresentable

\* 1/y for y # 0
NInv(y) == Norm(y[3], y[4], y[1], y[2])

NDiv(x, y) == NMul(x, NInv(y))

\* The sign of x - y: the lowest non-zero coefficient of
\* x.num * y.den - y.num * x.den, both denominators being positive.
NCmp(x, y) ==
    LET c0 == x[1] * y[3] - y[1] * x[3]
        c1 == x[1] * y[4] + x[2] * y[3] - y[1] * x[4] - y[2] * x[3]
        c2 == x[2] * y[4] - y[2] * x[4]
        c  == IF c0 # 0 THEN c0 ELSE IF c1 # 0 THEN c1 ELSE c2
    IN  IF c < 0 THEN -1 ELSE IF c > 0 THEN 1 ELSE 0

NLe(x, y) == NCmp(x, y) <= 0
NLt(x, y) == NCmp(x, y) < 0
NMax(x, y) == IF NLe(x, y) THEN y ELSE x
NMin(x, y) == IF NLe(x, y) THEN x ELSE y

RECURSIVE SumSeq(_)
SumSeq(s) == IF Len(s) = 0 THEN Zero ELSE NAdd(s[1], SumSeq(Tail(s)))

RECURSIVE ProdSeq(_)
ProdSeq(s) == IF Len(s) = 0 THEN One ELSE NMul(s[1], ProdSeq(Tail(s)))

RECURSIVE MaxSeq(_)
MaxSeq(s) == IF Len(s) = 1 THEN s[1] ELSE NMax(s[1], MaxSeq(Tail(s)))

RECURSIVE MinSeq(_)
MinSeq(s) == IF Len(s) = 1 THEN s[1] ELSE NMin(s[1], MinSeq(Tail(s)))

(***************************************************************************)
(* Library functions (numpy / torch) used by the blending code             *)
(***************************************************************************)
\* torch.exp / np.exp of x * ln 2 for an integer x: 2^x
torch_exp(x_ln2) ==
    IF ~IsInteger(x_ln2) THEN Unrepresentable
    ELSE IF x_ln2[1] >= 0 THEN R(Pow2(x_ln2[1]), 1) ELSE R(1, Pow2(-x_ln2[1]))

\* torch.sigmoid(x) = 1 / (1 + exp(-x)), x in units of ln 2
torch_sigmoid(x_ln2) == NDiv(One, NAdd(One, torch_exp(NNeg(x_ln2))))

\* torch.exp(torch.log(t).sum(dim=-1)) for one pixel's K values t[k] > 0:
\* exp(log t1 + ... + log tK) = t1 * ... * tK
exp_sum_log(t) == ProdSeq(t)

\* The function f on 1..n as a tuple of evaluated elements
AsTuple(f) == f \o << >>

\* fragments.pix_to_face.shape
ShapeOf(t) == <<Len(t), Len(t[1]), Len(t[1][1]), Len(t[1][1][1])>>

\* torch.ones((N, H, W, 4))
torch_ones(N, H, W, C) ==
    LET one(n, h, w, c) == One IN AsTuple([i1 \in 1..N |-> AsTuple([i2 \in 1..H |->
                                      AsTuple([i3 \in 1..W |-> AsTuple([i4 \in 1..C |->
                                          one(i1, i2, i3, i4)])])])])

\* No flip at all
torch_flip_none(t) == t

\* torch.flip(t, [1]): reverse the row axis
torch_flip(t) ==
    AsTuple([n \in 1..Len(t) |->
        AsTuple([h \in 1..Len(t[n]) |-> t[n][Len(t[n]) + 1 - h]])])

\* torch.clamp(t, min=lo, max=hi) on one element
\* A clamp that forgets the lower end
clamp_elem_max_only(v, lo, hi) == IF NLt(hi, v) THEN hi ELSE v

clamp_elem(v, lo, hi) == IF NLt(v, lo) THEN lo ELSE IF NLt(hi, v) THEN hi ELSE v

\* torch.clamp(t, min=lo, max=hi) on a tensor of shape (N, H, W, C)
torch_clamp(t, lo, hi) ==
    LET cl(n, h, w, c) == clamp_elem(t[n][h][w][c], lo, hi)
    IN  AsTuple([i1 \in 1..Len(t) |-> AsTuple([i2 \in 1..Len(t[1]) |->
            AsTuple([i3 \in 1..Len(t[1][1]) |-> AsTuple([i4 \in 1..Len(t[1][1][1]) |->
                cl(i1, i2, i3, i4)])])])])

\* Broadcasting: index i of the result read in an operand whose size is dim
Bidx(i, dim) == IF dim = 1 THEN 1 ELSE i

\* A shape of at most four axes, aligned to the right of four
PadShape(s) ==
    [i \in 1..4 |-> IF i <= 4 - Len(s) THEN 1 ELSE s[i - (4 - Len(s))]]

\* The broadcast of two sizes of one axis; 0 when they do not match
BroadcastDim(a, b) ==
    IF a = b THEN a ELSE IF a = 1 THEN b ELSE IF b = 1 THEN a ELSE 0

\* The broadcast of two four-axis shapes
BroadcastShape(s1, s2) == [i \in 1..4 |-> BroadcastDim(s1[i], s2[i])]

ShapeOk(s) == \A i \in 1..4 : s[i] # 0

(***************************************************************************)
(* class BlendParams(NamedTuple)                                           *)
(***************************************************************************)
\* The annotated names of the class body: the fields of the named tuple.
\* Float literals are kept as written.
BlendParams_fields == {"sigma", "gamma"}

\* sigma: float = 1e-4 and gamma: float = 1e-4
BlendParams_defaults == [sigma |-> "1e-4", gamma |-> "1e-4"]

\* background_color = (1.0, 1.0, 1.0) carries no annotation: it is an
\* attribute of the class, shared by every instance, and no field.
BlendParams_class_attrs == [background_color |-> <<"1.0", "1.0", "1.0">>]

\* BlendParams(**kw): the generated __new__ accepts the fields only
BlendParams(kw) ==
    IF DOMAIN kw \subseteq BlendParams_fields
    THEN [raised |-> "none",
          value  |-> [f \in BlendParams_fields |->
                        IF f \in DOMAIN kw THEN kw[f] ELSE BlendParams_defaults[f]]]
    ELSE [raised |-> "TypeError", value |-> << >>]

\* obj.name for an instance of BlendParams: a field, else the class attribute
getattr(obj, name) ==
    IF name \in DOMAIN obj THEN obj[name] ELSE BlendParams_class_attrs[name]

(***************************************************************************)
(* hard_rgb_blend(colors, fragments)                                       *)
(***************************************************************************)
\* The colour of the last slot in place of the first
hard_rgb_blend_last_slot(cols, frags) ==
    LET shp == ShapeOf(frags.pix_to_face)
        pixel_colors(n, h, w, c) ==
            IF c <= 3 THEN cols[n][h][w][shp[4]][c] ELSE One
    IN  torch_flip(AsTuple([i1 \in 1..shp[1] |-> AsTuple([i2 \in 1..shp[2] |->
                       AsTuple([i3 \in 1..shp[3] |-> AsTuple([i4 \in 1..4 |->
                           pixel_colors(i1, i2, i3, i4)])])])]))

hard_rgb_blend(cols, frags) ==
    LET shp == ShapeOf(frags.pix_to_face)
        pixel_colors(n, h, w, c) == IF c <= 3 THEN cols[n][h][w][1][c] ELSE One
    IN  torch_flip(AsTuple([i1 \in 1..shp[1] |-> AsTuple([i2 \in 1..shp[2] |->
                       AsTuple([i3 \in 1..shp[3] |-> AsTuple([i4 \in 1..4 |->
                           pixel_colors(i1, i2, i3, i4)])])])]))

(***************************************************************************)
(* sigmoid_alpha_blend(colors, fragments, blend_params)                    *)
(***************************************************************************)
\* A mask that lets every slot through
mask_all_ones(frags) ==
    LET shp == ShapeOf(frags.pix_to_face)
        m(n, h, w, k) == One
    IN  AsTuple([i1 \in 1..shp[1] |-> AsTuple([i2 \in 1..shp[2] |->
            AsTuple([i3 \in 1..shp[3] |-> AsTuple([i4 \in 1..shp[4] |->
                m(i1, i2, i3, i4)])])])])

\* mask = fragments.pix_to_face >= 0, as the factor 1 or 0
mask(frags) ==
    LET shp == ShapeOf(frags.pix_to_face)
        m(n, h, w, k) == IF frags.pix_to_face[n][h][w][k] >= 0 THEN One ELSE Zero
    IN  AsTuple([i1 \in 1..shp[1] |-> AsTuple([i2 \in 1..shp[2] |->
            AsTuple([i3 \in 1..shp[3] |-> AsTuple([i4 \in 1..shp[4] |->
                m(i1, i2, i3, i4)])])])])

\* The sigmoid of +dists / sigma: the sign of the distance lost
prob_positive_dists(frags, bp) ==
    LET shp == ShapeOf(frags.pix_to_face)
        m(n, h, w, k) == IF frags.pix_to_face[n][h][w][k] >= 0 THEN One ELSE Zero
        p(n, h, w, k) ==
            NMul(torch_sigmoid(NDiv(frags.dists[n][h][w][k], bp.sigma)), m(n, h, w, k))
    IN  AsTuple([i1 \in 1..shp[1] |-> AsTuple([i2 \in 1..shp[2] |->
            AsTuple([i3 \in 1..shp[3] |-> AsTuple([i4 \in 1..shp[4] |->
                p(i1, i2, i3, i4)])])])])

\* prob = torch.sigmoid(-fragments.dists / blend_params.sigma) * mask
prob(frags, bp) ==
    LET shp == ShapeOf(frags.pix_to_face)
        mk  == mask(frags)
        p(n, h, w, k) ==
            NMul(torch_sigmoid(NDiv(NNeg(frags.dists[n][h][w][k]), bp.sigma)),
                 mk[n][h][w][k])
    IN  AsTuple([i1 \in 1..shp[1] |-> AsTuple([i2 \in 1..shp[2] |->
            AsTuple([i3 \in 1..shp[3] |-> AsTuple([i4 \in 1..shp[4] |->
                p(i1, i2, i3, i4)])])])])

\* alpha = 1.0 - torch.exp(torch.log((1.0 - prob)).sum(dim=-1))
alpha(pr) ==
    LET shp == ShapeOf(pr)
        a(n, h, w) ==
            NSub(One, exp_sum_log(AsTuple([k \in 1..shp[4] |-> NSub(One, pr[n][h][w][k])])))
    IN  AsTuple([i1 \in 1..shp[1] |-> AsTuple([i2 \in 1..shp[2] |->
            AsTuple([i3 \in 1..shp[3] |-> a(i1, i2, i3)])])])

sigmoid_alpha_blend(cols, frags, bp) ==
    LET shp == ShapeOf(frags.pix_to_face)
        al  == alpha(prob(frags, bp))
        pixel_colors(n, h, w, c) ==
            IF c <= 3 THEN cols[n][h][w][1][c] ELSE al[n][h][w]
    IN  torch_flip(torch_clamp(AsTuple([i1 \in 1..shp[1] |-> AsTuple([i2 \in 1..shp[2] |->
                                   AsTuple([i3 \in 1..shp[3] |-> AsTuple([i4 \in 1..4 |->
                                       pixel_colors(i1, i2, i3, i4)])])])]),
                               Zero, One))

(***************************************************************************)
(* softmax_rgb_blend(colors, fragments, blend_params)                      *)
(***************************************************************************)
zfar == 100
znear == 1

\* background = blend_params.background_color, made a tensor by torch.tensor
\* when it is a tuple or a list: the same values and the same shape, (3,)
\* for a flat tuple and (B, 3) for a tuple of B tuples
background(bp) ==
    IF bp.background_color.is_tensor
    THEN bp.background_color
    ELSE [is_tensor |-> TRUE, shape |-> bp.background_color.shape,
          data |-> bp.background_color.data]

\* delta = np.exp(1e-10 / blend_params.gamma) * 1e-10, the indeterminate
delta(bp) == <<0, 1, 1, 0>>

\* prob_map = torch.sigmoid(-fragments.dists / blend_params.sigma) * mask
prob_map(frags, bp) ==
    LET shp == ShapeOf(frags.pix_to_face)
        mk  == mask(frags)
        p(n, h, w, k) ==
            NMul(torch_sigmoid(NDiv(NNeg(frags.dists[n][h][w][k]), bp.sigma)),
                 mk[n][h][w][k])
    IN  AsTuple([i1 \in 1..shp[1] |-> AsTuple([i2 \in 1..shp[2] |->
            AsTuple([i3 \in 1..shp[3] |-> AsTuple([i4 \in 1..shp[4] |->
                p(i1, i2, i3, i4)])])])])

\* z_inv without the mask: padding slots keep their depth
z_inv_unmasked(frags) ==
    LET shp == ShapeOf(frags.pix_to_face)
        z(n, h, w, k) ==
            NDiv(NSub(R(zfar, 1), frags.zbuf[n][h][w][k]),
                 NSub(R(zfar, 1), R(znear, 1)))
    IN  AsTuple([i1 \in 1..shp[1] |-> AsTuple([i2 \in 1..shp[2] |->
            AsTuple([i3 \in 1..shp[3] |-> AsTuple([i4 \in 1..shp[4] |->
                z(i1, i2, i3, i4)])])])])

\* z_inv = (zfar - fragments.zbuf) / (zfar - znear) * mask
z_inv(frags) ==
    LET shp == ShapeOf(frags.pix_to_face)
        mk  == mask(frags)
        z(n, h, w, k) ==
            NMul(NDiv(NSub(R(zfar, 1), frags.zbuf[n][h][w][k]),
                      NSub(R(zfar, 1), R(znear, 1))),
                 mk[n][h][w][k])
    IN  AsTuple([i1 \in 1..shp[1] |-> AsTuple([i2 \in 1..shp[2] |->
            AsTuple([i3 \in 1..shp[3] |-> AsTuple([i4 \in 1..shp[4] |->
                z(i1, i2, i3, i4)])])])])

\* The minimum over the slots in place of the maximum
z_inv_min(zi) ==
    LET shp == ShapeOf(zi)
        m(n, h, w) == MinSeq(zi[n][h][w])
    IN  AsTuple([i1 \in 1..shp[1] |-> AsTuple([i2 \in 1..shp[2] |->
            AsTuple([i3 \in 1..shp[3] |-> m(i1, i2, i3)])])])

\* z_inv_max = torch.max(z_inv, dim=-1).values[..., None]
z_inv_max(zi) ==
    LET shp == ShapeOf(zi)
        m(n, h, w) == MaxSeq(zi[n][h][w])
    IN  AsTuple([i1 \in 1..shp[1] |-> AsTuple([i2 \in 1..shp[2] |->
            AsTuple([i3 \in 1..shp[3] |-> m(i1, i2, i3)])])])

\* (z_inv - z_inv_max) / blend_params.gamma, the argument of the exponential
exponent(frags, bp) ==
    LET shp == ShapeOf(frags.pix_to_face)
        zi  == z_inv(frags)
        zm  == z_inv_max(zi)
        e(n, h, w, k) == NDiv(NSub(zi[n][h][w][k], zm[n][h][w]), bp.gamma)
    IN  AsTuple([i1 \in 1..shp[1] |-> AsTuple([i2 \in 1..shp[2] |->
            AsTuple([i3 \in 1..shp[3] |-> AsTuple([i4 \in 1..shp[4] |->
                e(i1, i2, i3, i4)])])])])

\* weights_num = prob_map * torch.exp((z_inv - z_inv_max) / blend_params.gamma)
weights_num(frags, bp) ==
    LET shp == ShapeOf(frags.pix_to_face)
        pm  == prob_map(frags, bp)
        ex  == exponent(frags, bp)
        wn(n, h, w, k) == NMul(pm[n][h][w][k], torch_exp(ex[n][h][w][k]))
    IN  AsTuple([i1 \in 1..shp[1] |-> AsTuple([i2 \in 1..shp[2] |->
            AsTuple([i3 \in 1..shp[3] |-> AsTuple([i4 \in 1..shp[4] |->
                wn(i1, i2, i3, i4)])])])])

\* The sum of twice delta: the background counted twice in the denominator
denom_double_delta(wn, bp) ==
    LET shp == ShapeOf(wn)
        d(n, h, w) == NAdd(SumSeq(wn[n][h][w]), NAdd(delta(bp), delta(bp)))
    IN  AsTuple([i1 \in 1..shp[1] |-> AsTuple([i2 \in 1..shp[2] |->
            AsTuple([i3 \in 1..shp[3] |-> d(i1, i2, i3)])])])

\* denom = weights_num.sum(dim=-1)[..., None] + delta
denom(wn, bp) ==
    LET shp == ShapeOf(wn)
        d(n, h, w) == NAdd(SumSeq(wn[n][h][w]), delta(bp))
    IN  AsTuple([i1 \in 1..shp[1] |-> AsTuple([i2 \in 1..shp[2] |->
            AsTuple([i3 \in 1..shp[3] |-> d(i1, i2, i3)])])])

\* weights = weights_num / denom
weights(wn, dn) ==
    LET shp == ShapeOf(wn)
        wt(n, h, w, k) == NDiv(wn[n][h][w][k], dn[n][h][w])
    IN  AsTuple([i1 \in 1..shp[1] |-> AsTuple([i2 \in 1..shp[2] |->
            AsTuple([i3 \in 1..shp[3] |-> AsTuple([i4 \in 1..shp[4] |->
                wt(i1, i2, i3, i4)])])])])

\* weighted_colors = (weights[..., None] * colors).sum(dim=-2)
weighted_colors(wt, cols) ==
    LET shp == ShapeOf(wt)
        wc(n, h, w, c) ==
            SumSeq(AsTuple([k \in 1..shp[4] |->
                NMul(wt[n][h][w][k], cols[n][h][w][k][c])]))
    IN  AsTuple([i1 \in 1..shp[1] |-> AsTuple([i2 \in 1..shp[2] |->
            AsTuple([i3 \in 1..shp[3] |-> AsTuple([i4 \in 1..3 |->
                wc(i1, i2, i3, i4)])])])])

\* The shape of (delta / denom) * background: (N, H, W, 1) broadcast with
\* the shape of background
weighted_background_shape(dn, bg) ==
    BroadcastShape(<<Len(dn), Len(dn[1]), Len(dn[1][1]), 1>>, PadShape(bg.shape))

\* The rows of a 2-D background aligned with the batch axis
background_at_batch(bg, n, h, w, c) ==
    LET pb == PadShape(bg.shape)
    IN  IF Len(bg.shape) = 1
        THEN bg.data[Bidx(c, pb[4])]
        ELSE bg.data[Bidx(n, pb[3])][Bidx(c, pb[4])]

\* The element of background that broadcasting puts at (n, h, w, c): the
\* axes of background are aligned with the last axes of (N, H, W, 3)
background_at(bg, n, h, w, c) ==
    LET pb == PadShape(bg.shape)
    IN  IF Len(bg.shape) = 1
        THEN bg.data[Bidx(c, pb[4])]
        ELSE bg.data[Bidx(w, pb[3])][Bidx(c, pb[4])]

\* weighted_background = (delta / denom) * background
weighted_background(dn, bg, bp) ==
    LET shp == weighted_background_shape(dn, bg)
        wb(n, h, w, c) ==
            NMul(NDiv(delta(bp),
                      dn[Bidx(n, Len(dn))][Bidx(h, Len(dn[1]))][Bidx(w, Len(dn[1][1]))]),
                 background_at(bg, n, h, w, c))
    IN  AsTuple([i1 \in 1..shp[1] |-> AsTuple([i2 \in 1..shp[2] |->
            AsTuple([i3 \in 1..shp[3] |-> AsTuple([i4 \in 1..shp[4] |->
                wb(i1, i2, i3, i4)])])])])

\* pix_colors[..., :3] = weighted_colors + weighted_background,
\* pix_colors[..., 3] = alpha, then the clamp and the flip: [raised, value].
\* The product with the background and the assignment to
\* pix_colors[..., :3] raise RuntimeError when the shapes do not broadcast.
pix_colors(cols, bg, bp, al, wn, dn) ==
    LET shp == ShapeOf(wn)
        wc  == weighted_colors(weights(wn, dn), cols)
        wbs == weighted_background_shape(dn, bg)
        wb  == weighted_background(dn, bg, bp)
        rgbs == BroadcastShape(<<shp[1], shp[2], shp[3], 3>>, wbs)
        rgba(n, h, w, c) ==
            IF c <= 3
            THEN NAdd(wc[n][h][Bidx(w, shp[3])][c],
                      wb[n][h][Bidx(w, wbs[3])][Bidx(c, wbs[4])])
            ELSE al[n][h][w]
    IN  IF ~ShapeOk(wbs) \/ ~ShapeOk(rgbs) \/ rgbs # <<shp[1], shp[2], shp[3], 3>>
        THEN [raised |-> "RuntimeError", value |-> << >>]
        ELSE [raised |-> "none",
              value  |-> torch_flip(torch_clamp(
                             AsTuple([i1 \in 1..shp[1] |-> AsTuple([i2 \in 1..shp[2] |->
                                 AsTuple([i3 \in 1..shp[3] |-> AsTuple([i4 \in 1..4 |->
                                     rgba(i1, i2, i3, i4)])])])]),
                             Zero, One))]

\* The image blended with the weights weights_num: the normalisation by
\* denom, then pix_colors
normalized_blend(cols, bg, bp, al, wn) ==
    pix_colors(cols, bg, bp, al, wn, denom(wn, bp))

\* The result of softmax_rgb_blend: [raised, value]
softmax_rgb_blend(cols, frags, bp) ==
    normalized_blend(cols, background(bp), bp, alpha(prob_map(frags, bp)),
                     weights_num(frags, bp))

(***************************************************************************)
(* Inputs                                                                  *)
(***************************************************************************)
MaxN == 2
MaxH == 2
MaxW == 2
MaxK == 2

\* RGB colours; ColorB lies outside [0, 1]
ColorA == <<One, R(1, 2), Zero>>
ColorB == <<R(3, 2), R(-1, 2), R(1, 4)>>

\* One slot of a pixel: the face index (negative: padding), the signed
\* distance, the depth and the colour of the face; the nearer faces are
\* coloured ColorA, the farther ones ColorB
Slots ==
    {[face |-> f, dist |-> d, z |-> z, color |-> IF z = R(98, 1) THEN ColorA ELSE ColorB] :
        f \in {-1, 0}, d \in {R(-2, 1), R(2, 1)}, z \in {R(98, 1), R(102, 1)}}

SlotInside == [face |-> 0, dist |-> R(-2, 1), z |-> R(98, 1), color |-> ColorA]
SlotBeyond == [face |-> 0, dist |-> R(2, 1), z |-> R(102, 1), color |-> ColorB]
SlotPadding == [face |-> -1, dist |-> R(-2, 1), z |-> R(98, 1), color |-> ColorB]

\* A pixel of K slots: slot 1 is first, the others are rest
PixelOf(first, rest, K) ==
    AsTuple([k \in 1..K |-> IF k = 1 THEN first ELSE rest])

PixelTemplates(K) ==
    {PixelOf(SlotInside, SlotPadding, K), PixelOf(SlotBeyond, SlotInside, K),
     PixelOf(SlotPadding, SlotPadding, K), PixelOf(SlotPadding, SlotBeyond, K)}

\* colors of shape (N, H, W, K, 3) and the fragments of shape (N, H, W, K)
\* whose pixel (n, h, w) is P[n][h][w]
InputColors(P, N, H, W, K) ==
    LET c(n, h, w, k) == P[n][h][w][k].color IN AsTuple([i1 \in 1..N |-> AsTuple([i2 \in 1..H |->
                                                    AsTuple([i3 \in 1..W |-> AsTuple([i4 \in 1..K |->
                                                        c(i1, i2, i3, i4)])])])])

InputFragments(P, N, H, W, K) ==
    LET f(n, h, w, k) == P[n][h][w][k].face
        d(n, h, w, k) == P[n][h][w][k].dist
        z(n, h, w, k) == P[n][h][w][k].z
    IN  [pix_to_face |-> AsTuple([i1 \in 1..N |-> AsTuple([i2 \in 1..H |->
                             AsTuple([i3 \in 1..W |-> AsTuple([i4 \in 1..K |->
                                 f(i1, i2, i3, i4)])])])]),
         dists       |-> AsTuple([i1 \in 1..N |-> AsTuple([i2 \in 1..H |->
                             AsTuple([i3 \in 1..W |-> AsTuple([i4 \in 1..K |->
                                 d(i1, i2, i3, i4)])])])]),
         zbuf        |-> AsTuple([i1 \in 1..N |-> AsTuple([i2 \in 1..H |->
                             AsTuple([i3 \in 1..W |-> AsTuple([i4 \in 1..K |->
                                 z(i1, i2, i3, i4)])])])])]

\* A background colour: a tuple, a tensor of shape (3,), a tensor of shape
\* (B, 3), a tuple of B tuples
TupleBackground(v) == [is_tensor |-> FALSE, shape |-> <<3>>, data |-> v]
TensorBackground(v) == [is_tensor |-> TRUE, shape |-> <<3>>, data |-> v]
BatchBackground(rows) == [is_tensor |-> TRUE, shape |-> <<Len(rows), 3>>, data |-> rows]
NestedBackground(rows) == [is_tensor |-> FALSE, shape |-> <<Len(rows), 3>>, data |-> rows]

\* Row n of the per-batch-element background: the rows differ
BatchRow(n) == <<R(n, 4), R(n, 8), Zero>>

\* Objects passed as blend_params: sigma and gamma in units of 1/ln 2
Params(s, g, bg) ==
    [sigma |-> R(s, 1), gamma |-> R(g, zfar - znear), background_color |-> bg]

PixelParams ==
    {Params(1, 1, TupleBackground(<<One, One, One>>)),
     Params(2, 2, TupleBackground(<<R(1, 10), R(1, 5), R(3, 10)>>)),
     Params(1, 2, TensorBackground(<<R(3, 2), R(-1, 2), R(1, 4)>>))}

TensorParams(N) ==
    {Params(1, 1, TupleBackground(<<One, One, One>>)),
     Params(2, 2, TensorBackground(<<R(1, 10), R(1, 5), R(3, 10)>>)),
     Params(1, 1, BatchBackground(AsTuple([n \in 1..N |-> BatchRow(n)]))),
     Params(1, 1, NestedBackground(AsTuple([n \in 1..N |-> BatchRow(n)])))}

\* The arguments a call of BlendParams may give
GivenArgs ==
    [sigma |-> "0.5", gamma |-> "2.0", background_color |-> <<"0.0", "0.0", "0.0">>]

(***************************************************************************)
(* State: the inputs of one call, the call made and its result             *)
(***************************************************************************)
VARIABLES colors, fragments, blend_params, op, raised, image, kwargs, made

vars == <<colors, fragments, blend_params, op, raised, image, kwargs, made>>

inputs == <<colors, fragments, blend_params>>

NoCall ==
    /\ op = "none"
    /\ raised = "none"
    /\ image = << >>
    /\ kwargs = << >>
    /\ made = << >>

\* Tensors of any shape up to (MaxN, MaxH, MaxW, MaxK): every pixel is the
\* base pixel but the first or the last one
InitTensor ==
    \E N \in 1..MaxN, H \in 1..MaxH, W \in 1..MaxW :
      \E pos \in {<<1, 1, 1>>, <<N, H, W>>} :
        \E focus \in PixelTemplates(MaxK) :
          LET base == PixelOf(SlotInside, SlotBeyond, MaxK)
              P == [n \in 1..N |-> [h \in 1..H |-> [w \in 1..W |->
                       IF <<n, h, w>> = pos THEN focus ELSE base]]]
          IN  /\ colors = InputColors(P, N, H, W, MaxK)
              /\ fragments = InputFragments(P, N, H, W, MaxK)
              /\ blend_params \in TensorParams(N)
              /\ NoCall

\* One pixel, every combination of slots
InitPixel ==
    \E pixel \in [1..MaxK -> Slots] :
      LET P == << << <<pixel>> >> >>
      IN  /\ colors = InputColors(P, 1, 1, 1, MaxK)
          /\ fragments = InputFragments(P, 1, 1, 1, MaxK)
          /\ blend_params \in PixelParams
          /\ NoCall

Init == InitTensor \/ InitPixel

(***************************************************************************)
(* The calls                                                               *)
(***************************************************************************)
BlendParamsNew ==
    /\ op = "none"
    /\ \E given \in SUBSET (DOMAIN GivenArgs) :
         LET kw == [f \in given |-> GivenArgs[f]]
             r  == BlendParams(kw)
         IN  /\ kwargs' = kw
             /\ made' = r.value
             /\ raised' = r.raised
    /\ op' = "BlendParams"
    /\ UNCHANGED <<inputs, image>>

HardRgbBlend ==
    /\ op = "none"
    /\ image' = hard_rgb_blend(colors, fragments)
    /\ raised' = "none"
    /\ op' = "hard_rgb_blend"
    /\ UNCHANGED <<inputs, kwargs, made>>

SigmoidAlphaBlend ==
    /\ op = "none"
    /\ image' = sigmoid_alpha_blend(colors, fragments, blend_params)
    /\ raised' = "none"
    /\ op' = "sigmoid_alpha_blend"
    /\ UNCHANGED <<inputs, kwargs, made>>

SoftmaxRgbBlend ==
    /\ op = "none"
    /\ LET r == softmax_rgb_blend(colors, fragments, blend_params)
       IN  /\ image' = r.value
           /\ raised' = r.raised
    /\ op' = "softmax_rgb_blend"
    /\ UNCHANGED <<inputs, kwargs, made>>

Next == BlendParamsNew \/ HardRgbBlend \/ SigmoidAlphaBlend \/ SoftmaxRgbBlend

Spec == Init /\ [][Next]_vars

(***************************************************************************)
(* Properties                                                              *)
(***************************************************************************)
BlendOps == {"hard_rgb_blend", "sigmoid_alpha_blend", "softmax_rgb_blend"}

\* A blending function returned an image
Returned(o) == op = o /\ raised = "none"

NN == Len(colors)
HH == Len(colors[1])
WW == Len(colors[1][1])
KK == Len(colors[1][1][1])

Pixels == (1..NN) \X (1..HH) \X (1..WW)

\* The row of the image that shows row h of the inputs
Flipped(h) == HH + 1 - h

InUnit(v) == NLe(Zero, v) /\ NLe(v, One)

Valid(n, h, w, k) == fragments.pix_to_face[n][h][w][k] >= 0

\* The image function o returns for the inputs (cols, frags, bp)
BlendBy(o, cols, frags, bp) ==
    CASE o = "hard_rgb_blend" -> hard_rgb_blend(cols, frags)
      [] o = "sigmoid_alpha_blend" -> sigmoid_alpha_blend(cols, frags, bp)
      [] o = "softmax_rgb_blend" -> softmax_rgb_blend(cols, frags, bp).value

\* The inputs of shape (1, 1, 1, K) that hold pixel (n, h, w) alone
PixelColors(n, h, w) == << << << colors[n][h][w] >> >> >>

PixelFragments(frags, n, h, w) ==
    [pix_to_face |-> << << << frags.pix_to_face[n][h][w] >> >> >>,
     dists       |-> << << << frags.dists[n][h][w] >> >> >>,
     zbuf        |-> << << << frags.zbuf[n][h][w] >> >> >>]

\* blend_params with the 3-vector v as the background colour
WithBackground(bp, v) ==
    [sigma |-> bp.sigma, gamma |-> bp.gamma, background_color |-> TensorBackground(v)]

BackgroundIsVector == Len(blend_params.background_color.shape) = 1

-----------------------------------------------------------------------------
\* C1 as claimed: whichever of the three functions returned, every channel
\* of every pixel of the image lies in [0, 1].
C1_AllThreeInUnit ==
    (op \in BlendOps /\ raised = "none") =>
        \A p \in Pixels : \A c \in 1..4 : InUnit(image[p[1]][p[2]][p[3]][c])

\* C1 amended: every channel of the image of sigmoid_alpha_blend and of
\* softmax_rgb_blend lies in [0, 1]; hard_rgb_blend does not clamp: its
\* alpha is 1 and each RGB channel lies in [0, 1] exactly when the slot-0
\* colour it copies does.
C1_ClampedVariantsInUnit ==
    /\ (Returned("sigmoid_alpha_blend") \/ Returned("softmax_rgb_blend")) =>
           \A p \in Pixels : \A c \in 1..4 : InUnit(image[p[1]][p[2]][p[3]][c])
    /\ Returned("hard_rgb_blend") =>
           \A p \in Pixels :
               /\ image[p[1]][Flipped(p[2])][p[3]][4] = One
               /\ \A c \in 1..3 :
                      InUnit(image[p[1]][Flipped(p[2])][p[3]][c])
                          <=> InUnit(colors[p[1]][p[2]][p[3]][1][c])

\* C1 witness: softmax_rgb_blend returned an image for a pixel whose slot-0
\* face is valid and has a colour channel outside [0, 1].
C1_Witness ==
    /\ Returned("softmax_rgb_blend")
    /\ \E p \in Pixels :
           /\ Valid(p[1], p[2], p[3], 1)
           /\ \E c \in 1..3 : ~InUnit(colors[p[1]][p[2]][p[3]][1][c])

-----------------------------------------------------------------------------
\* Values written over the distance and the depth of the padding slots
PadValues == {<<R(-4, 1), R(94, 1)>>, <<R(6, 1), R(106, 1)>>}

\* frags with distance d and depth z stored at every padding slot
PaddingSet(frags, d, z) ==
    LET shp == ShapeOf(frags.pix_to_face)
        di(n, h, w, k) ==
            IF frags.pix_to_face[n][h][w][k] < 0 THEN d ELSE frags.dists[n][h][w][k]
        zb(n, h, w, k) ==
            IF frags.pix_to_face[n][h][w][k] < 0 THEN z ELSE frags.zbuf[n][h][w][k]
    IN  [pix_to_face |-> frags.pix_to_face,
         dists       |-> AsTuple([i1 \in 1..shp[1] |-> AsTuple([i2 \in 1..shp[2] |->
                             AsTuple([i3 \in 1..shp[3] |-> AsTuple([i4 \in 1..shp[4] |->
                                 di(i1, i2, i3, i4)])])])]),
         zbuf        |-> AsTuple([i1 \in 1..shp[1] |-> AsTuple([i2 \in 1..shp[2] |->
                             AsTuple([i3 \in 1..shp[3] |-> AsTuple([i4 \in 1..shp[4] |->
                                 zb(i1, i2, i3, i4)])])])])]

\* C2: the image of sigmoid_alpha_blend and of softmax_rgb_blend (RGB and
\* alpha) is the image of the same call with any other distance and depth
\* stored at the slots whose pix_to_face is negative.
C2_PaddingValuesIgnored ==
    (Returned("sigmoid_alpha_blend") \/ Returned("softmax_rgb_blend")) =>
        \A v \in PadValues :
            image = BlendBy(op, colors, PaddingSet(fragments, v[1], v[2]), blend_params)

\* C2 witness: softmax_rgb_blend returned for a pixel that has a padding
\* slot beside a valid one.
C2_Witness ==
    /\ Returned("softmax_rgb_blend")
    /\ \E p \in Pixels : \E k1, k2 \in 1..KK :
           Valid(p[1], p[2], p[3], k1) /\ ~Valid(p[1], p[2], p[3], k2)

-----------------------------------------------------------------------------
AllInvalid(n, h, w) == \A k \in 1..KK : ~Valid(n, h, w, k)

\* C3 as claimed: at a pixel whose slots are all padding, hard_rgb_blend
\* gives alpha 1 and the slot-0 colour, sigmoid_alpha_blend gives alpha 0,
\* softmax_rgb_blend gives the background colour itself and alpha 0.
C3_AllInvalidGivesBackground ==
    (op \in BlendOps /\ raised = "none") =>
        \A p \in Pixels : AllInvalid(p[1], p[2], p[3]) =>
            LET out == image[p[1]][Flipped(p[2])][p[3]]
            IN  /\ op = "hard_rgb_blend" =>
                       /\ out[4] = One
                       /\ \A c \in 1..3 : out[c] = colors[p[1]][p[2]][p[3]][1][c]
                /\ op = "sigmoid_alpha_blend" => out[4] = Zero
                /\ (op = "softmax_rgb_blend" /\ BackgroundIsVector) =>
                       /\ out[4] = Zero
                       /\ \A c \in 1..3 : out[c] = blend_params.background_color.data[c]

\* C3 amended: as claimed, but the RGB of softmax_rgb_blend is the
\* background colour clamped to [0, 1].
C3_AllInvalidGivesClampedBackground ==
    (op \in BlendOps /\ raised = "none") =>
        \A p \in Pixels : AllInvalid(p[1], p[2], p[3]) =>
            LET out == image[p[1]][Flipped(p[2])][p[3]]
            IN  /\ op = "hard_rgb_blend" =>
                       /\ out[4] = One
                       /\ \A c \in 1..3 : out[c] = colors[p[1]][p[2]][p[3]][1][c]
                /\ op = "sigmoid_alpha_blend" => out[4] = Zero
                /\ (op = "softmax_rgb_blend" /\ BackgroundIsVector) =>
                       /\ out[4] = Zero
                       /\ \A c \in 1..3 :
                              out[c] = clamp_elem(blend_params.background_color.data[c],
                                                  Zero, One)

\* C3 witness: softmax_rgb_blend returned for an all-padding pixel under a
\* background colour that is neither the default nor inside [0, 1].
C3_Witness ==
    /\ Returned("softmax_rgb_blend")
    /\ BackgroundIsVector
    /\ \E c \in 1..3 : ~InUnit(blend_params.background_color.data[c])
    /\ \E p \in Pixels : AllInvalid(p[1], p[2], p[3])

-----------------------------------------------------------------------------
\* The colour channel c of the K slots of pixel (n, h, w) and of the
\* background colour used there
ChannelValues(bg, n, h, w, c) ==
    AsTuple([k \in 1..KK + 1 |->
        IF k <= KK THEN colors[n][h][w][k][c] ELSE background_at(bg, n, h, w, c)])

\* C4: in softmax_rgb_blend, at every pixel, the K face weights
\* weights_num / denom and the background weight delta / denom are
\* non-negative and sum to exactly 1, and each channel of the unclamped
\* RGB, the sum of weights times colours plus the background weight times
\* the background colour, lies between the least and the greatest of the
\* K slot colours and the background colour.
C4_ConvexCombination ==
    Returned("softmax_rgb_blend") =>
        LET bg == background(blend_params)
            wn == weights_num(fragments, blend_params)
            dn == denom(wn, blend_params)
            wt == weights(wn, dn)
            wc == weighted_colors(wt, colors)
            wb == weighted_background(dn, bg, blend_params)
        IN  \A p \in Pixels :
                LET n   == p[1]
                    h   == p[2]
                    w   == p[3]
                    bgw == NDiv(delta(blend_params), dn[n][h][w])
                IN  /\ \A k \in 1..KK : NLe(Zero, wt[n][h][w][k])
                    /\ NLe(Zero, bgw)
                    /\ NAdd(SumSeq(wt[n][h][w]), bgw) = One
                    /\ \A c \in 1..3 :
                           LET rgb == NAdd(wc[n][h][w][c], wb[n][h][w][c])
                               cv  == ChannelValues(bg, n, h, w, c)
                           IN  NLe(MinSeq(cv), rgb) /\ NLe(rgb, MaxSeq(cv))

\* C4 witness: softmax_rgb_blend returned for a pixel with two valid slots
\* of different weights.
C4_Witness ==
    /\ Returned("softmax_rgb_blend")
    /\ KK >= 2
    /\ \E p \in Pixels :
           LET wn == weights_num(fragments, blend_params)[p[1]][p[2]][p[3]]
           IN  /\ Valid(p[1], p[2], p[3], 1)
               /\ Valid(p[1], p[2], p[3], 2)
               /\ wn[1] # wn[2]
               /\ wn[1] # Zero

-----------------------------------------------------------------------------
\* C5: for each of the three functions, the pixel of the image at
\* (n, H-1-h, w) is what the function returns for the inputs that hold
\* pixel (n, h, w) alone (a 3-vector background colour given), and flipping
\* the rows of the image twice gives the image back.
C5_RowFlipAndLocality ==
    (op \in BlendOps /\ raised = "none" /\ BackgroundIsVector) =>
        /\ \A p \in Pixels :
               image[p[1]][Flipped(p[2])][p[3]] =
                   BlendBy(op, PixelColors(p[1], p[2], p[3]),
                           PixelFragments(fragments, p[1], p[2], p[3]),
                           blend_params)[1][1][1]
        /\ torch_flip(torch_flip(image)) = image

\* C5 witness: softmax_rgb_blend returned an image of at least two batch
\* elements, rows and columns whose two first rows differ.
C5_Witness ==
    /\ Returned("softmax_rgb_blend")
    /\ BackgroundIsVector
    /\ NN >= 2 /\ HH >= 2 /\ WW >= 2
    /\ image[1][1] # image[1][2]

-----------------------------------------------------------------------------
BlendParams_attrs == BlendParams_fields \cup DOMAIN BlendParams_class_attrs

\* The default of attribute f of BlendParams
DefaultOf(f) ==
    IF f \in BlendParams_fields
    THEN BlendParams_defaults[f] ELSE BlendParams_class_attrs[f]

\* C6 as claimed: BlendParams can be constructed giving any subset of
\* sigma, gamma and background_color; each given attribute holds the given
\* value and each omitted one its default.
C6_AnySubsetOfFields ==
    op = "BlendParams" =>
        /\ raised = "none"
        /\ \A f \in BlendParams_attrs :
               getattr(made, f) = IF f \in DOMAIN kwargs THEN kwargs[f] ELSE DefaultOf(f)

-----------------------------------------------------------------------------
\* C7 as claimed: the RGB channels of sigmoid_alpha_blend are those of
\* hard_rgb_blend for the same colors and fragments.
C7_SigmoidRgbIsHardRgb ==
    Returned("sigmoid_alpha_blend") =>
        LET hard == hard_rgb_blend(colors, fragments)
        IN  \A p \in Pixels : \A c \in 1..3 :
                image[p[1]][p[2]][p[3]][c] = hard[p[1]][p[2]][p[3]][c]

\* C7 amended: the RGB channels of sigmoid_alpha_blend are those of
\* hard_rgb_blend clamped to [0, 1], so the two agree wherever the slot-0
\* colour lies in [0, 1]; the alpha of hard_rgb_blend is 1.
C7_SigmoidRgbIsClampedHardRgb ==
    Returned("sigmoid_alpha_blend") =>
        LET hard == hard_rgb_blend(colors, fragments)
        IN  \A p \in Pixels :
                /\ \A c \in 1..3 :
                       image[p[1]][p[2]][p[3]][c] =
                           clamp_elem(hard[p[1]][p[2]][p[3]][c], Zero, One)
                /\ hard[p[1]][p[2]][p[3]][4] = One

\* C7 witness: sigmoid_alpha_blend returned for a pixel whose slot-0 colour
\* lies in [0, 1] and differs from the colour of its next slot, in an image
\* of two rows.
C7_Witness ==
    /\ Returned("sigmoid_alpha_blend")
    /\ KK >= 2 /\ HH >= 2
    /\ \E p \in Pixels :
           /\ \A c \in 1..3 : InUnit(colors[p[1]][p[2]][p[3]][1][c])
           /\ colors[p[1]][p[2]][p[3]][1] # colors[p[1]][p[2]][p[3]][2]

-----------------------------------------------------------------------------
\* Distances to which the distance of a valid slot is lowered
LowerDists == {R(-4, 1), R(0, 1)}

\* The fragments of one pixel with distance d at slot k
WithDist(frags1, k, d) ==
    [pix_to_face |-> frags1.pix_to_face,
     dists       |-> << << << [frags1.dists[1][1][1] EXCEPT ![k] = d] >> >> >>,
     zbuf        |-> frags1.zbuf]

\* The alpha function o computes, before the clamp
AlphaBy(o, frags, bp) ==
    IF o = "sigmoid_alpha_blend"
    THEN alpha(prob(frags, bp)) ELSE alpha(prob_map(frags, bp))

\* C8: lowering the distance of one valid slot of a pixel, everything else
\* kept, never lowers the alpha sigmoid_alpha_blend and softmax_rgb_blend
\* give that pixel.
C8_AlphaMonotone ==
    (Returned("sigmoid_alpha_blend") \/ Returned("softmax_rgb_blend")) =>
        \A p \in Pixels : \A k \in 1..KK : Valid(p[1], p[2], p[3], k) =>
            \A d \in LowerDists : NLt(d, fragments.dists[p[1]][p[2]][p[3]][k]) =>
                LET f1 == WithDist(PixelFragments(fragments, p[1], p[2], p[3]), k, d)
                    a1 == AlphaBy(op, f1, blend_params)[1][1][1]
                IN  /\ NLe(image[p[1]][Flipped(p[2])][p[3]][4], a1)
                    /\ InUnit(a1)

\* C8 witness: sigmoid_alpha_blend returned for a pixel with a valid slot
\* whose distance can be lowered, beside another valid slot.
C8_Witness ==
    /\ Returned("sigmoid_alpha_blend")
    /\ KK >= 2
    /\ \E p \in Pixels :
           /\ Valid(p[1], p[2], p[3], 1) /\ Valid(p[1], p[2], p[3], 2)
           /\ NLt(R(0, 1), fragments.dists[p[1]][p[2]][p[3]][1])
           /\ NLt(Zero, image[p[1]][Flipped(p[2])][p[3]][4])

-----------------------------------------------------------------------------
BackgroundIsBatch ==
    /\ Len(blend_params.background_color.shape) = 2
    /\ blend_params.background_color.shape[1] = NN

\* The inputs that hold batch element n alone
BatchFragments(n) ==
    [pix_to_face |-> <<fragments.pix_to_face[n]>>,
     dists       |-> <<fragments.dists[n]>>,
     zbuf        |-> <<fragments.zbuf[n]>>]

\* C9 as claimed: with the background colour given per batch element
\* (shape N x 3) softmax_rgb_blend returns, and the image of batch element
\* n is the one blended with the 3-vector background_color[n].
C9_BackgroundPerBatchElement ==
    (op = "softmax_rgb_blend" /\ BackgroundIsBatch) =>
        /\ raised = "none"
        /\ \A n \in 1..NN :
               image[n] =
                   softmax_rgb_blend(<<colors[n]>>, BatchFragments(n),
                       WithBackground(blend_params,
                           blend_params.background_color.data[n])).value[1]

\* C9 amended: given a 3-vector (tuple or tensor), softmax_rgb_blend
\* returns and blends every batch element with that vector.  Given N
\* rows (a tensor of shape N x 3 or a tuple of N tuples) it aligns the N
\* rows with the columns of the image: it raises RuntimeError unless
\* N = W or N = 1, and when it returns every pixel of column w is blended
\* with background_color[w] (background_color[0] when N = 1).
C9_BackgroundBroadcastOverColumns ==
    op = "softmax_rgb_blend" =>
        /\ BackgroundIsVector =>
               /\ raised = "none"
               /\ \A n \in 1..NN :
                      image[n] =
                          softmax_rgb_blend(<<colors[n]>>, BatchFragments(n),
                              WithBackground(blend_params,
                                  blend_params.background_color.data)).value[1]
        /\ BackgroundIsBatch =>
               /\ raised = "RuntimeError" <=> ~(NN = WW \/ NN = 1)
               /\ raised = "none" =>
                      \A p \in Pixels :
                          image[p[1]][Flipped(p[2])][p[3]] =
                              softmax_rgb_blend(PixelColors(p[1], p[2], p[3]),
                                  PixelFragments(fragments, p[1], p[2], p[3]),
                                  WithBackground(blend_params,
                                      blend_params.background_color.data[
                                          Bidx(p[3], NN)])).value[1][1][1]

\* C9 witness: softmax_rgb_blend returned for two batch elements and a
\* background colour of shape 2 x 3 whose rows differ.
C9_Witness ==
    /\ Returned("softmax_rgb_blend")
    /\ BackgroundIsBatch
    /\ NN >= 2
    /\ blend_params.background_color.data[1] # blend_params.background_color.data[2]
    /\ \E p \in Pixels : \E k \in 1..KK : ~Valid(p[1], p[2], p[3], k)

-----------------------------------------------------------------------------
\* The indices of the valid slots of pixel (n, h, w), in order
ValidSlots(n, h, w) ==
    LET V(k) == Valid(n, h, w, k)
    IN  SelectSeq(AsTuple([k \in 1..KK |-> k]), V)

\* The fragments of pixel (n, h, w) without its padding slots
ValidFragments(n, h, w) ==
    LET vs == ValidSlots(n, h, w)
        pick(t) == << << << AsTuple([i \in 1..Len(vs) |-> t[n][h][w][vs[i]]]) >> >> >>
    IN  [pix_to_face |-> pick(fragments.pix_to_face),
         dists       |-> pick(fragments.dists),
         zbuf        |-> pick(fragments.zbuf)]

\* What C10 states of pixel (n, h, w), given the tensors of the call
MaxIsValidSlot(n, h, w, zi, zm, ex, wt) ==
    LET vs  == ValidSlots(n, h, w)
        vf  == ValidFragments(n, h, w)
        vwn == weights_num(vf, blend_params)
        vwt == weights(vwn, denom(vwn, blend_params))
    IN  /\ \E k \in 1..KK : Valid(n, h, w, k) /\ zi[n][h][w][k] = zm[n][h][w]
        /\ \A k \in 1..KK : NLe(ex[n][h][w][k], Zero)
        /\ \E k \in 1..KK : Valid(n, h, w, k) /\ ex[n][h][w][k] = Zero
        /\ \A i \in 1..Len(vs) : wt[n][h][w][vs[i]] = vwt[1][1][1][i]

\* C10 as claimed: in softmax_rgb_blend, at every pixel with a valid slot,
\* z_inv_max is the z_inv of a valid slot, every exponent is <= 0, a valid
\* slot has exponent 0, and the weights of the valid slots are those of
\* the pixel without its padding slots.
C10_MaxAttainedByValidSlot ==
    Returned("softmax_rgb_blend") =>
        LET zi == z_inv(fragments)
            zm == z_inv_max(zi)
            ex == exponent(fragments, blend_params)
            wn == weights_num(fragments, blend_params)
            wt == weights(wn, denom(wn, blend_params))
        IN  \A p \in Pixels :
                (\E k \in 1..KK : Valid(p[1], p[2], p[3], k)) =>
                    MaxIsValidSlot(p[1], p[2], p[3], zi, zm, ex, wt)

\* C10 amended: the same, at every pixel that has a valid slot no farther
\* than zfar (z_inv >= 0) or that has valid slots only.
C10_MaxAttainedWithinFarPlane ==
    Returned("softmax_rgb_blend") =>
        LET zi == z_inv(fragments)
            zm == z_inv_max(zi)
            ex == exponent(fragments, blend_params)
            wn == weights_num(fragments, blend_params)
            wt == weights(wn, denom(wn, blend_params))
        IN  \A p \in Pixels :
                (\/ \E k \in 1..KK :
                        /\ Valid(p[1], p[2], p[3], k)
                        /\ NLe(fragments.zbuf[p[1]][p[2]][p[3]][k], R(zfar, 1))
                 \/ \A k \in 1..KK : Valid(p[1], p[2], p[3], k)) =>
                    MaxIsValidSlot(p[1], p[2], p[3], zi, zm, ex, wt)

\* C10 witness: softmax_rgb_blend returned for a pixel with a padding slot,
\* a valid slot nearer than zfar and a valid slot of a negative exponent.
C10_Witness ==
    /\ Returned("softmax_rgb_blend")
    /\ \E p \in Pixels : \E k1, k2 \in 1..KK :
           /\ Valid(p[1], p[2], p[3], k1)
           /\ NLt(fragments.zbuf[p[1]][p[2]][p[3]][k1], R(zfar, 1))
           /\ ~Valid(p[1], p[2], p[3], k2)
=============================================================================
